---- MODULE Spec2Model ----
(***************************************************************************)
(* Model of src/main.py, the KAFB2B API client: configuration loading,     *)
(* URL resolution, the recursive token search, token issuance, the         *)
(* authorised business POST and the two business operations with their     *)
(* retry-once-on-expired-token wrapper.                                    *)
(*                                                                         *)
(* Python strings are sequences of one-character strings, so that          *)
(* str.strip, str.lower, "in" and rsplit are computed, not assumed.  A      *)
(* Hangul syllable is one character, written here by its romanisation:     *)
(* the marker of line 108 is the two characters <<"man", "ryo">>.          *)
(* JSON values are tagged records:                                         *)
(*   [t |-> "null"]  [t |-> "bool", b]  [t |-> "num", n]  [t |-> "str", s] *)
(*   [t |-> "arr", items |-> <<v, ...>>]                                   *)
(*   [t |-> "obj", items |-> <<[k |-> key, v |-> value], ...>>]            *)
(* An object keeps its pairs in document order (a Python dict iterates in  *)
(* insertion order) and its keys are distinct.                             *)
(***************************************************************************)
EXTENDS Integers, Sequences, FiniteSets, TLC

VARIABLES
    env,      \* the process environment read by load_config
    pc,       \* pc[op]: where the operation op stands
    attempt,  \* attempt[op]: 0 before the first _request(), then 1, then 2
    cfg,      \* cfg[op]: the tuple load_config returned to op
    payload,  \* payload[op]: the query body built from the four parameters
    token,    \* token[op]: the local variable token of the running _request()
    net,      \* net[op]: the network calls op has made, in order
    outcome,  \* outcome[op]: what the operation returned or raised
    args,     \* args[op]: the four parameters the operation was called with
    stdout,   \* stdout[op]: what the operation has printed
    fn_in,    \* argument of the pure function under examination
    fn_out    \* its result

vars == <<env, pc, attempt, cfg, payload, token, net, outcome, args, stdout, fn_in, fn_out>>

-----------------------------------------------------------------------------
(* Python strings *)

Str(s) == [t |-> "str", s |-> s]
PyNone == [t |-> "null"]
Num(n) == [t |-> "num", n |-> n]
Bool(b) == [t |-> "bool", b |-> b]
Arr(items) == [t |-> "arr", items |-> items]
Obj(items) == [t |-> "obj", items |-> items]
KV(k, v) == [k |-> k, v |-> v]

LowerChar(c) ==
    CASE c = "T" -> "t" [] c = "K" -> "k" [] c = "N" -> "n" [] c = "I" -> "i"
      [] c = "F" -> "f" [] c = "O" -> "o" [] c = "M" -> "m" [] c = "E" -> "e"
      [] c = "S" -> "s" [] c = "A" -> "a" [] c = "G" -> "g" [] c = "D" -> "d"
      [] c = "P" -> "p" [] OTHER -> c

Lower(s) == [i \in 1..Len(s) |-> LowerChar(s[i])]

IsSpace(c) == c = " "

RECURSIVE LStrip(_)
LStrip(s) == IF s # <<>> /\ IsSpace(Head(s)) THEN LStrip(Tail(s)) ELSE s

RECURSIVE RStripSpace(_)
RStripSpace(s) ==
    IF s # <<>> /\ IsSpace(s[Len(s)]) THEN RStripSpace(SubSeq(s, 1, Len(s) - 1)) ELSE s

Strip(s) == RStripSpace(LStrip(s))

Contains(s, sub) ==
    \E i \in 1..(Len(s) - Len(sub) + 1) : SubSeq(s, i, i + Len(sub) - 1) = sub

EndsWith(s, suffix) ==
    /\ Len(s) >= Len(suffix)
    /\ SubSeq(s, Len(s) - Len(suffix) + 1, Len(s)) = suffix

\* Truth value of a Python object in "if x:" / "not x"
Truthy(v) ==
    CASE v.t = "null" -> FALSE
      [] v.t = "bool" -> v.b
      [] v.t = "num" -> v.n # 0
      [] v.t = "str" -> v.s # <<>>
      [] v.t = "arr" -> v.items # <<>>
      [] v.t = "obj" -> v.items # <<>>
      [] OTHER -> TRUE

-----------------------------------------------------------------------------
(* _find_token *)

tkn_info == <<"t", "k", "n", "_", "i", "n", "f", "o">>

RECURSIVE _find_token(_)
RECURSIVE FindInDict(_, _)
RECURSIVE FindInList(_, _)

\* Faulty variant: the key is compared without lower()
DirectMatch_CaseSensitive(k, v) ==
    /\ k = tkn_info
    /\ v.t = "str"
    /\ Strip(v.s) # <<>>

\* A pair of the dict matches when its key is tkn_info in lower case and its
\* value is a string that is not blank
DirectMatch(k, v) ==
    /\ Lower(k) = tkn_info
    /\ v.t = "str"
    /\ Strip(v.s) # <<>>

\* Faulty variant: the pairs are searched in two passes, first all of them for
\* a direct match, then their values in order
FindInDict_DirectFirst(items, i) ==
    LET direct == {j \in i..Len(items) : DirectMatch(items[j].k, items[j].v)}
    IN  IF i > Len(items) THEN PyNone
        ELSE IF direct # {}
        THEN items[CHOOSE j \in direct : \A l \in direct : j <= l].v
        ELSE LET found == _find_token(items[i].v)
             IN  IF Truthy(found) THEN found ELSE FindInDict(items, i + 1)

\* the loop "for k, v in obj.items()" from its i-th pair on
FindInDict(items, i) ==
    IF i > Len(items) THEN PyNone
    ELSE IF DirectMatch(items[i].k, items[i].v) THEN items[i].v
    ELSE LET found == _find_token(items[i].v)
         IN  IF Truthy(found) THEN found ELSE FindInDict(items, i + 1)

\* the loop "for item in obj" from its i-th item on
FindInList(items, i) ==
    IF i > Len(items) THEN PyNone
    ELSE LET found == _find_token(items[i])
         IN  IF Truthy(found) THEN found ELSE FindInList(items, i + 1)

_find_token(obj) ==
    IF obj.t = "obj" THEN FindInDict(obj.items, 1)
    ELSE IF obj.t = "arr" THEN FindInList(obj.items, 1)
    ELSE PyNone

-----------------------------------------------------------------------------
(* Python's str() and repr() of a parsed JSON value *)

DigitChar(d) ==
    CASE d = 0 -> "0" [] d = 1 -> "1" [] d = 2 -> "2" [] d = 3 -> "3" [] d = 4 -> "4"
      [] d = 5 -> "5" [] d = 6 -> "6" [] d = 7 -> "7" [] d = 8 -> "8" [] OTHER -> "9"

RECURSIVE IntStr(_)
IntStr(n) == IF n < 10 THEN <<DigitChar(n)>> ELSE IntStr(n \div 10) \o <<DigitChar(n % 10)>>

RECURSIVE PyStr(_)
RECURSIVE PyReprItems(_, _)
RECURSIVE PyReprPairs(_, _)

PyRepr(v) == IF v.t = "str" THEN <<"'">> \o v.s \o <<"'">> ELSE PyStr(v)

PyReprItems(items, i) ==
    IF i > Len(items) THEN <<>>
    ELSE (IF i > 1 THEN <<",", " ">> ELSE <<>>) \o PyRepr(items[i]) \o PyReprItems(items, i + 1)

PyReprPairs(items, i) ==
    IF i > Len(items) THEN <<>>
    ELSE (IF i > 1 THEN <<",", " ">> ELSE <<>>)
         \o PyRepr(Str(items[i].k)) \o <<":", " ">> \o PyRepr(items[i].v)
         \o PyReprPairs(items, i + 1)

PyStr(v) ==
    CASE v.t = "str" -> v.s
      [] v.t = "null" -> <<"N", "o", "n", "e">>
      [] v.t = "bool" -> IF v.b THEN <<"T", "r", "u", "e">> ELSE <<"F", "a", "l", "s", "e">>
      [] v.t = "num" -> IntStr(v.n)
      [] v.t = "arr" -> <<"[">> \o PyReprItems(v.items, 1) \o <<"]">>
      [] OTHER -> <<"{">> \o PyReprPairs(v.items, 1) \o <<"}">>

HasKey(d, key) == \E i \in 1..Len(d.items) : d.items[i].k = key

\* dict.get(key, default)
DictGet(d, key, default) ==
    IF HasKey(d, key)
    THEN d.items[CHOOSE i \in 1..Len(d.items) : d.items[i].k = key].v
    ELSE default

-----------------------------------------------------------------------------
(* What a called function does: return a value or raise an exception *)

Return(v) == [raised |-> FALSE, value |-> v]
Raise(e) == [raised |-> TRUE, error |-> e]

\* cls is the exception class, at is the raise statement, detail its message
Error(cls, at, detail) == [cls |-> cls, at |-> at, detail |-> detail]

-----------------------------------------------------------------------------
(* _split_base_and_token_endpoint *)

API_DEFAULT_BASE_URL == 
    <<"h", "t", "t", "p", "s", ":", "/", "/", "e", "d", "u", ".", "k", "a", "f", "b", "2", "b", ".", "o", "r", ".", "k", "r", 
       "/", "a", "p", "i", "/", "v", "2", "/", "w", "h", "s", "l">>

\* Faulty variant: the appended path has no extension
ACCESS_TOKEN_PATH_NoExt ==
    <<"/", "a", "c", "c", "e", "s", "s", "_", "t", "o", "k", "e", "n">>

ACCESS_TOKEN_PATH == 
    <<"/", "a", "c", "c", "e", "s", "s", "_", "t", "o", "k", "e", "n", ".", "d", "o">>

DocExtensions == {<<".", "d", "o">>, <<".", "j", "s", "o", "n">>, <<".", "p", "h", "p">>, <<".", "a", "s", "p">>}

\* Faulty variant: one trailing "/" is removed, not all of them
RStripSlash_Once(s) ==
    IF s # <<>> /\ s[Len(s)] = "/" THEN SubSeq(s, 1, Len(s) - 1) ELSE s

\* str.rstrip("/")
RECURSIVE RStripSlash(_)
RStripSlash(s) ==
    IF s # <<>> /\ s[Len(s)] = "/" THEN RStripSlash(SubSeq(s, 1, Len(s) - 1)) ELSE s

\* position of the last "/" of s, 0 when there is none
LastSlash(s) ==
    IF \E i \in 1..Len(s) : s[i] = "/"
    THEN CHOOSE i \in 1..Len(s) : s[i] = "/" /\ \A j \in (i + 1)..Len(s) : s[j] # "/"
    ELSE 0

\* Faulty variant: s.split("/", 1)[0], the part before the first "/"
RSplitFirst_FirstSlash(s) ==
    IF \E i \in 1..Len(s) : s[i] = "/"
    THEN SubSeq(s, 1, (CHOOSE i \in 1..Len(s) :
                          s[i] = "/" /\ \A j \in 1..(i - 1) : s[j] # "/") - 1)
    ELSE s

\* s.rsplit("/", 1)[-1] and s.rsplit("/", 1)[0]
RSplitLast(s) == SubSeq(s, LastSlash(s) + 1, Len(s))
RSplitFirst(s) == IF LastSlash(s) = 0 THEN s ELSE SubSeq(s, 1, LastSlash(s) - 1)

\* Faulty variant: only the four extensions are looked for, not any dot
_split_base_and_token_endpoint_ExtOnly(api_base) ==
    LET normalized == RStripSlash(api_base)
        last_segment == RSplitLast(normalized)
        lower_segment == Lower(last_segment)
    IN  IF \E ext \in DocExtensions : EndsWith(lower_segment, ext)
        THEN [resource_base |-> RSplitFirst(normalized), token_endpoint |-> normalized]
        ELSE [resource_base |-> normalized,
              token_endpoint |-> normalized \o ACCESS_TOKEN_PATH]

_split_base_and_token_endpoint(api_base) ==
    LET normalized == RStripSlash(api_base)
        last_segment == RSplitLast(normalized)
        lower_segment == Lower(last_segment)
    IN  IF (\E ext \in DocExtensions : EndsWith(lower_segment, ext))
           \/ Contains(last_segment, <<".">>)
        THEN [resource_base |-> RSplitFirst(normalized), token_endpoint |-> normalized]
        ELSE [resource_base |-> normalized,
              token_endpoint |-> normalized \o ACCESS_TOKEN_PATH]

-----------------------------------------------------------------------------
(* load_config *)

\* os.getenv(name) and os.getenv(name, default); an unset variable is None
GetEnv(e, name) == e[name]
GetEnvDefault(e, name, default) == IF e[name] = PyNone THEN Str(default) ELSE e[name]

\* Faulty variant: only the service key is looked at
Missing_ServiceOnly(service_key, secret_key) ==
    IF ~Truthy(service_key) THEN <<"SRCV_KEYVAL">> ELSE <<>>

\* the names whose value is falsy, in the order of the dict literal
Missing(service_key, secret_key) ==
    (IF ~Truthy(service_key) THEN <<"SRCV_KEYVAL">> ELSE <<>>)
    \o (IF ~Truthy(secret_key) THEN <<"SCR_KEYVAL">> ELSE <<>>)

load_config(e) ==
    LET api_base == GetEnvDefault(e, "KAFB2B_API_URL", API_DEFAULT_BASE_URL)
        service_key == GetEnv(e, "SRCV_KEYVAL")
        secret_key == GetEnv(e, "SCR_KEYVAL")
        missing == Missing(service_key, secret_key)
        urls == _split_base_and_token_endpoint(api_base.s)
    IN  IF missing # <<>>
        THEN Raise(Error("RuntimeError", "config_missing", [missing |-> missing]))
        ELSE Return([base_url |-> urls.resource_base,
                     token_endpoint |-> urls.token_endpoint,
                     service_key |-> service_key,
                     secret_key |-> secret_key])

-----------------------------------------------------------------------------
(* The HTTP transport, requests.post: the answer to one POST *)

\* requests.post raised (connection failure, timeout): there is no response
NoResponse == [status |-> 0, body |-> [t |-> "text"]]

\* A response has a status code and a body; the body is [t |-> "text"] when it
\* is not a JSON document, and the JSON value it encodes otherwise
Response(status, body) == [status |-> status, body |-> body]

PostRaised(resp) == resp = NoResponse

\* Response.raise_for_status raises for 4xx and 5xx; Response.ok is its negation
RaisesForStatus(resp) == resp.status >= 400 /\ resp.status < 600
Ok(resp) == ~RaisesForStatus(resp)

\* Response.json() raises ValueError on a body that is not JSON
JsonRaises(resp) == resp.body.t = "text"
Json(resp) == resp.body

-----------------------------------------------------------------------------
(* request_access_token *)

TokenRequest(api_url, service_key, secret_key) ==
    [kind |-> "token", url |-> api_url, bearer |-> PyNone,
     json |-> Obj(<<KV(<<"S", "R", "C", "V", "_", "K", "E", "Y", "V", "A", "L">>, service_key), KV(<<"S", "C", "R", "_", "K", "E", "Y", "V", "A", "L">>, secret_key)>>)]

\* Faulty variant: raise_for_status is not called
request_access_token_NoStatusCheck(api_url, service_key, secret_key, resp) ==
    IF PostRaised(resp)
    THEN Raise(Error("RequestException", "post", [call |-> "token"]))
    ELSE IF JsonRaises(resp)
    THEN Raise(Error("RuntimeError", "token_not_json", [status |-> resp.status]))
    ELSE IF ~Truthy(_find_token(Json(resp)))
    THEN Raise(Error("RuntimeError", "token_missing", [data |-> Json(resp)]))
    ELSE Return(_find_token(Json(resp)))

request_access_token(api_url, service_key, secret_key, resp) ==
    IF PostRaised(resp)
    THEN Raise(Error("RequestException", "post", [call |-> "token"]))
    ELSE IF RaisesForStatus(resp)
    THEN Raise(Error("RuntimeError", "token_status", [status |-> resp.status]))
    ELSE IF JsonRaises(resp)
    THEN Raise(Error("RuntimeError", "token_not_json", [status |-> resp.status]))
    ELSE LET data == Json(resp)
             found == _find_token(data)
         IN  IF ~Truthy(found)
             THEN Raise(Error("RuntimeError", "token_missing", [data |-> data]))
             ELSE Return(found)

-----------------------------------------------------------------------------
(* _post_market_endpoint *)

EXPIRED_MARKER == <<"man", "ryo">>

MESSAGE == <<"M", "E", "S", "S", "A", "G", "E">>

BusinessRequest(url, tok, body) ==
    [kind |-> "business", url |-> url, bearer |-> tok, json |-> body]

\* lines 99-102: the parsed body, None when the body is not JSON
ParsedOrNone(resp) == IF JsonRaises(resp) THEN PyNone ELSE Json(resp)

\* Faulty variant: the marker is looked for in the text of any parsed body
MessageOf_WholeBody(data) ==
    IF data.t = "obj" THEN Strip(PyStr(DictGet(data, MESSAGE, Str(<<>>))))
    ELSE Strip(PyStr(data))

\* lines 105-107: the text of MESSAGE when the parsed body is a dict
MessageOf(data) ==
    IF data.t = "obj" THEN Strip(PyStr(DictGet(data, MESSAGE, Str(<<>>)))) ELSE <<>>

\* Faulty variant: any message of a failed call counts as expiry
IsExpiredMessage_AnyMessage(message) == message # <<>>

\* line 108
IsExpiredMessage(message) == message # <<>> /\ Contains(message, EXPIRED_MARKER)

\* Faulty variant: the message is examined before the status
_post_market_endpoint_ExpiryFirst(url, tok, body, context, resp) ==
    IF PostRaised(resp)
    THEN Raise(Error("RequestException", "post", [call |-> "business"]))
    ELSE LET data == ParsedOrNone(resp)
             message == MessageOf(data)
         IN  IF IsExpiredMessage(message)
             THEN Raise(Error("ExpiredTokenError", "expired", [message |-> message]))
             ELSE IF ~Ok(resp)
             THEN Raise(Error("RuntimeError", "business_failed",
                              [context |-> context, status |-> resp.status,
                               message |-> message]))
             ELSE IF data = PyNone
             THEN Raise(Error("RuntimeError", "business_not_json", [context |-> context]))
             ELSE Return(data)

\* lines 95-117
_post_market_endpoint(url, tok, body, context, resp) ==
    IF PostRaised(resp)
    THEN Raise(Error("RequestException", "post", [call |-> "business"]))
    ELSE LET data == ParsedOrNone(resp)
             message == MessageOf(data)
         IN  IF ~Ok(resp)
             THEN IF IsExpiredMessage(message)
                  THEN Raise(Error("ExpiredTokenError", "expired", [message |-> message]))
                  ELSE Raise(Error("RuntimeError", "business_failed",
                                   [context |-> context, status |-> resp.status,
                                    message |-> message]))
             ELSE IF data = PyNone
             THEN Raise(Error("RuntimeError", "business_not_json", [context |-> context]))
             ELSE Return(data)

-----------------------------------------------------------------------------
(* request_sales_price and request_trans_info *)

Ops == {"request_sales_price", "request_trans_info"}

\* lines 144 and 180: the path of the business endpoint
EndpointPath(op) ==
    IF op = "request_sales_price"
    THEN <<"/", "e", "x", "c", "c", "l", "c", "P", "r", "c", "I", "n", "f", "o", ".", "d", "o">>
    ELSE <<"/", "t", "r", "n", "s", "o", "I", "n", "f", "o", ".", "d", "o">>

\* lines 148 and 184: the label of the operation in error messages
Context(op) == IF op = "request_sales_price" THEN "panmaewonjang" ELSE "georaejeongbo"

\* Faulty variant: the market code and the corporation code change places
Payload_SwappedCodes(q) ==
    Obj(<<KV(<<"I", "N", "Q", "_", "R", "E", "Q", "U", "S", "T", "_", "Y", "M", "D">>, Str(q.INQ_REQUST_YMD)),
          KV(<<"P", "G", "E", "_", "N", "O">>, Str(q.PGE_NO)),
          KV(<<"W", "H", "M", "K", "_", "C", "D">>, Str(q.WHSL_CPR_CD)),
          KV(<<"W", "H", "S", "L", "_", "C", "P", "R", "_", "C", "D">>, Str(q.WHMK_CD))>>)

\* lines 133-138 and 170-175: the query body
Payload(q) ==
    Obj(<<KV(<<"I", "N", "Q", "_", "R", "E", "Q", "U", "S", "T", "_", "Y", "M", "D">>, Str(q.INQ_REQUST_YMD)),
          KV(<<"P", "G", "E", "_", "N", "O">>, Str(q.PGE_NO)),
          KV(<<"W", "H", "M", "K", "_", "C", "D">>, Str(q.WHMK_CD)),
          KV(<<"W", "H", "S", "L", "_", "C", "P", "R", "_", "C", "D">>, Str(q.WHSL_CPR_CD))>>)

\* Faulty variants of the except clause
\* the except clause names a class the business call never raises
Catches_Nothing(att, err) == FALSE
\* the retry is a loop: every ExpiredTokenError starts another _request()
Catches_Loop(att, err) == err.cls = "ExpiredTokenError"
\* "except RuntimeError", the base class of ExpiredTokenError
Catches_RuntimeError(att, err) ==
    att = 1 /\ err.cls \in {"ExpiredTokenError", "RuntimeError"}

\* lines 151-154 and 187-190: the except clause takes an exception raised by
\* the first _request() when it is an ExpiredTokenError; the second _request()
\* runs inside the handler, where nothing is caught
Catches(att, err) == att = 1 /\ err.cls = "ExpiredTokenError"

\* line 142: request_sales_price prints the token it was issued;
\* request_trans_info has no such statement
PrintsToken(op) == op = "request_sales_price"

\* Faulty variant: the token of the first issuance is kept for the retry
Bearer_First(op) == net[op][1].result.value
\* Faulty variant: a token cache shared by the operations, an operation
\* takes the token another one holds
Bearer_Shared(op) ==
    IF \E o \in Ops \ {op} : token[o] # PyNone
    THEN token[CHOOSE o \in Ops \ {op} : token[o] # PyNone]
    ELSE token[op]

\* lines 145 and 181: the token handed to _post_market_endpoint
Bearer(op) == token[op]

NoOutcome == [state |-> "none"]
Returned(v) == [state |-> "returned", value |-> v]
Raised(e) == [state |-> "raised", error |-> e]

\* Faulty variant: an ExpiredTokenError of the second _request() is caught
\* too and the operation starts over with its first attempt
Propagate_Restart(op, err) ==
    /\ token' = [token EXCEPT ![op] = PyNone]
    /\ IF err.cls = "ExpiredTokenError"
       THEN /\ attempt' = [attempt EXCEPT ![op] = IF @ = 1 THEN 2 ELSE 1]
            /\ pc' = [pc EXCEPT ![op] = "token"]
            /\ UNCHANGED outcome
       ELSE /\ pc' = [pc EXCEPT ![op] = "done"]
            /\ outcome' = [outcome EXCEPT ![op] = Raised(err)]
            /\ UNCHANGED attempt

\* An exception leaves _request(): either the wrapper starts the second
\* _request() or the exception leaves the operation
Propagate(op, err) ==
    /\ token' = [token EXCEPT ![op] = PyNone]
    /\ IF Catches(attempt[op], err)
       THEN /\ attempt' = [attempt EXCEPT ![op] = 2]
            /\ pc' = [pc EXCEPT ![op] = "token"]
            /\ UNCHANGED outcome
       ELSE /\ pc' = [pc EXCEPT ![op] = "done"]
            /\ outcome' = [outcome EXCEPT ![op] = Raised(err)]
            /\ UNCHANGED attempt

\* The operation is called with the query q: load_config, the query body, and
\* the entry into the first _request()
Call(op, q) ==
    /\ pc[op] = "idle"
    /\ LET r == load_config(env)
       IN  IF r.raised
           THEN /\ pc' = [pc EXCEPT ![op] = "done"]
                /\ outcome' = [outcome EXCEPT ![op] = Raised(r.error)]
                /\ UNCHANGED <<attempt, cfg, payload>>
           ELSE /\ cfg' = [cfg EXCEPT ![op] = r.value]
                /\ payload' = [payload EXCEPT ![op] = Payload(q)]
                /\ attempt' = [attempt EXCEPT ![op] = 1]
                /\ pc' = [pc EXCEPT ![op] = "token"]
                /\ UNCHANGED outcome
    /\ args' = [args EXCEPT ![op] = q]
    /\ UNCHANGED <<env, token, net, stdout, fn_in, fn_out>>

\* lines 141-142 and 178: _request() issues its token, the transport answers
\* resp, and request_sales_price prints the token
IssueToken(op, resp) ==
    /\ pc[op] = "token"
    /\ LET c == cfg[op]
           r == request_access_token(c.token_endpoint, c.service_key, c.secret_key, resp)
       IN  /\ net' = [net EXCEPT ![op] = Append(@,
                        [request |-> TokenRequest(c.token_endpoint, c.service_key, c.secret_key),
                         response |-> resp, attempt |-> attempt[op], result |-> r])]
           /\ IF r.raised
              THEN Propagate(op, r.error)
              ELSE /\ token' = [token EXCEPT ![op] = r.value]
                   /\ pc' = [pc EXCEPT ![op] = "call"]
                   /\ UNCHANGED <<attempt, outcome>>
           /\ stdout' = [stdout EXCEPT ![op] =
                            IF ~r.raised /\ PrintsToken(op) THEN Append(@, r.value) ELSE @]
    /\ UNCHANGED <<env, cfg, payload, args, fn_in, fn_out>>

\* lines 143-149 and 179-185: _request() makes the business call
BusinessCall(op, resp) ==
    /\ pc[op] = "call"
    /\ LET url == cfg[op].base_url \o EndpointPath(op)
           r == _post_market_endpoint(url, Bearer(op), payload[op], Context(op), resp)
       IN  /\ net' = [net EXCEPT ![op] = Append(@,
                        [request |-> BusinessRequest(url, Bearer(op), payload[op]),
                         response |-> resp, attempt |-> attempt[op], result |-> r])]
           /\ IF r.raised
              THEN Propagate(op, r.error)
              ELSE /\ token' = [token EXCEPT ![op] = PyNone]
                   /\ pc' = [pc EXCEPT ![op] = "done"]
                   /\ outcome' = [outcome EXCEPT ![op] = Returned(r.value)]
                   /\ UNCHANGED attempt
    /\ UNCHANGED <<env, cfg, payload, args, stdout, fn_in, fn_out>>

-----------------------------------------------------------------------------
(* The environment, the queries and the answers of the server *)

SERVICE_KEY == Str(<<"s", "v", "c">>)
SECRET_KEY == Str(<<"s", "e", "c">>)

BaseUrlSlash == 
    <<"h", "t", "t", "p", "s", ":", "/", "/", "h", "o", "s", "t", "/", "a", "p", "i", "/", "v", "2", "/", "w", "h", "s", "l", "/">>
TokenUrl == 
    <<"h", "t", "t", "p", "s", ":", "/", "/", "h", "o", "s", "t", "/", "a", "p", "i", "/", "v", "2", "/", "w", "h", "s", "l", "/", "a", "c", "c", "e", "s", "s", "_", "t", "o", "k", "e", "n", ".", "d", "o">>

Envs ==
    [KAFB2B_API_URL : {PyNone, Str(BaseUrlSlash), Str(TokenUrl)},
     SRCV_KEYVAL : {PyNone, Str(<<>>), SERVICE_KEY},
     SCR_KEYVAL : {PyNone, Str(<<>>), SECRET_KEY}]

Queries ==
    {[INQ_REQUST_YMD |-> <<"2", "0", "2", "5", "1", "1", "2", "0">>, PGE_NO |-> <<"1">>,
      WHMK_CD |-> <<"2", "1", "0", "0", "0", "1">>, WHSL_CPR_CD |-> <<"2", "1", "0", "0", "0", "1", "0", "2">>],
     [INQ_REQUST_YMD |-> <<"2", "0", "2", "5", "1", "1", "2", "0">>, PGE_NO |-> <<"2">>,
      WHMK_CD |-> <<"2", "1", "0", "0", "0", "1">>, WHSL_CPR_CD |-> <<"2", "1", "0", "0", "0", "1", "0", "2">>]}

TKN_INFO == <<"T", "K", "N", "_", "I", "N", "F", "O">>
ExpiredText == <<"to", "keun", "i", " ", "man", "ryo", "doe", "eoss", "seub", "ni", "da">>
ExpiredBody == Obj(<<KV(MESSAGE, Str(ExpiredText))>>)
OtherBody == Obj(<<KV(MESSAGE, Str(<<"b", "a", "d">>))>>)
DataBody == Obj(<<KV(<<"d", "a", "t", "a">>, Arr(<<Num(1)>>))>>)
NotJson == [t |-> "text"]

TokenA == Str(<<"a", "1">>)
TokenB == Str(<<"b", "2">>)

TokenResponses ==
    {Response(200, Obj(<<KV(TKN_INFO, TokenA)>>)),
     Response(200, Obj(<<KV(<<"d", "a", "t", "a">>, Obj(<<KV(tkn_info, TokenB)>>))>>)),
     Response(200, Obj(<<KV(TKN_INFO, Str(<<" ">>))>>)),
     Response(200, ExpiredBody),
     Response(200, NotJson),
     Response(401, ExpiredBody),
     Response(500, Obj(<<KV(TKN_INFO, TokenA)>>)),
     NoResponse}

BusinessResponses ==
    {Response(200, DataBody),
     Response(200, ExpiredBody),
     Response(200, PyNone),
     Response(200, NotJson),
     Response(401, ExpiredBody),
     Response(401, OtherBody),
     Response(401, Arr(<<ExpiredBody>>)),
     Response(500, NotJson),
     NoResponse}

\* the result slot of a function that has not been applied yet, and after
Pending == [done |-> FALSE]
Done(r) == [done |-> TRUE, result |-> r]

-----------------------------------------------------------------------------
(* The program: each operation is called once, in any interleaving *)

InitOps ==
    /\ pc = [op \in Ops |-> "idle"]
    /\ attempt = [op \in Ops |-> 0]
    /\ cfg = [op \in Ops |-> PyNone]
    /\ payload = [op \in Ops |-> PyNone]
    /\ token = [op \in Ops |-> PyNone]
    /\ net = [op \in Ops |-> <<>>]
    /\ outcome = [op \in Ops |-> NoOutcome]
    /\ args = [op \in Ops |-> PyNone]
    /\ stdout = [op \in Ops |-> <<>>]

Init ==
    /\ env \in Envs
    /\ InitOps
    /\ fn_in = PyNone
    /\ fn_out = Pending

Next ==
    \/ \E op \in Ops, q \in Queries : Call(op, q)
    \/ \E op \in Ops, resp \in TokenResponses : IssueToken(op, resp)
    \/ \E op \in Ops, resp \in BusinessResponses : BusinessCall(op, resp)

Spec == Init /\ [][Next]_vars

\* lines 76 and 98: every POST is made with timeout=15, so a call that is
\* under way is answered or fails; each operation's pending call is taken
Fairness ==
    \A op \in Ops :
        /\ WF_vars(\E resp \in TokenResponses : IssueToken(op, resp))
        /\ WF_vars(\E resp \in BusinessResponses : BusinessCall(op, resp))

SpecLive == Init /\ [][Next]_vars /\ Fairness

-----------------------------------------------------------------------------
(* Reading the record of network calls *)

Kinds(op) == [i \in 1..Len(net[op]) |-> net[op][i].request.kind]

IsPrefix(s, t) == Len(s) <= Len(t) /\ SubSeq(t, 1, Len(s)) = s

FullCycle == <<"token", "business", "token", "business">>

AsOutcome(r) == IF r.raised THEN Raised(r.error) ELSE Returned(r.value)

\* The response is an HTTP failure
HttpFailure(resp) == resp # NoResponse /\ resp.status >= 400

\* The response is an HTTP failure whose body is a JSON object with a MESSAGE
\* whose text contains the expiration marker
SaysExpired(resp) ==
    /\ HttpFailure(resp)
    /\ resp.body.t = "obj"
    /\ \E i \in 1..Len(resp.body.items) :
          /\ resp.body.items[i].k = MESSAGE
          /\ Contains(PyStr(resp.body.items[i].v), EXPIRED_MARKER)

FirstBusinessExpired(op) ==
    /\ Len(net[op]) >= 2
    /\ net[op][2].request.kind = "business"
    /\ SaysExpired(net[op][2].response)

-----------------------------------------------------------------------------
(* C1 *)

\* C1 as stated: when the first business call is answered with the expired
\* message, the finished operation has made exactly one new token issuance
\* followed by exactly one repeated business call, and its result is the
\* outcome of that repeated business call.
C1_AlwaysFullRetry ==
    \A op \in Ops :
        (pc[op] = "done" /\ FirstBusinessExpired(op)) =>
            /\ Kinds(op) = FullCycle
            /\ outcome[op] = AsOutcome(net[op][4].result)

\* C1 (amended): when the first business call is answered with the expired
\* message, the operation goes on to exactly one new token issuance; when that
\* issuance returns a token it is followed by exactly one repeated business
\* call (same URL, same body), and when it fails no business call follows; the
\* final result of the operation is the outcome of the last call of the retry.
C1_RetryOnce ==
    \A op \in Ops :
        FirstBusinessExpired(op) =>
            /\ IsPrefix(Kinds(op), FullCycle)
            /\ pc[op] = "done" =>
                  /\ Len(net[op]) \in {3, 4}
                  /\ net[op][3].attempt = 2
                  /\ Len(net[op]) = 4 <=> ~net[op][3].result.raised
                  /\ Len(net[op]) = 4 =>
                        /\ net[op][4].request.url = net[op][2].request.url
                        /\ net[op][4].request.json = net[op][2].request.json
                        /\ net[op][4].attempt = 2
                  /\ outcome[op] = AsOutcome(net[op][Len(net[op])].result)

\* an operation whose first call was reported expired and whose retry returned
C1_Witness ==
    \E op \in Ops :
        /\ pc[op] = "done"
        /\ FirstBusinessExpired(op)
        /\ Len(net[op]) = 4
        /\ outcome[op].state = "returned"

-----------------------------------------------------------------------------
(* C2 *)

\* C2: an operation never loops: its network calls are at every moment a
\* prefix of token, business, token, business (at most four, at most two of
\* each kind), and when the retried business call is reported expired too,
\* that error is what the operation raises.
C2_NeverLoops ==
    \A op \in Ops :
        /\ IsPrefix(Kinds(op), FullCycle)
        /\ (Len(net[op]) = 4 /\ SaysExpired(net[op][4].response)) =>
              /\ pc[op] = "done"
              /\ outcome[op] = Raised(net[op][4].result.error)
              /\ outcome[op].error.cls = "ExpiredTokenError"

\* the retried business call was reported expired as well
C2_Witness ==
    \E op \in Ops :
        /\ Len(net[op]) = 4
        /\ SaysExpired(net[op][2].response)
        /\ SaysExpired(net[op][4].response)
        /\ pc[op] = "done"

-----------------------------------------------------------------------------
(* C3 *)

\* The first business call failed with something else than the expired signal
OtherFailure(resp) ==
    \/ HttpFailure(resp) /\ ~SaysExpired(resp)
    \/ resp # NoResponse /\ resp.status < 400 /\ resp.body.t = "text"

\* C3: when the first business call is answered by an HTTP failure without
\* the expiration marker, or by an HTTP success whose body is not JSON, the
\* operation is over with that error and has made no further network call.
C3_NoRetryOnOtherFailure ==
    \A op \in Ops :
        (/\ Len(net[op]) >= 2
         /\ net[op][2].request.kind = "business"
         /\ OtherFailure(net[op][2].response)) =>
            /\ Len(net[op]) = 2
            /\ pc[op] = "done"
            /\ net[op][2].result.raised
            /\ outcome[op] = Raised(net[op][2].result.error)
            /\ outcome[op].error.cls = "RuntimeError"

\* both kinds of other failure have happened, one per operation
C3_Witness ==
    \E op1, op2 \in Ops :
        /\ Len(net[op1]) = 2 /\ Len(net[op2]) = 2
        /\ net[op1][2].request.kind = "business"
        /\ net[op2][2].request.kind = "business"
        /\ HttpFailure(net[op1][2].response) /\ ~SaysExpired(net[op1][2].response)
        /\ net[op2][2].response.status < 400 /\ net[op2][2].response.body.t = "text"
        /\ net[op2][2].response # NoResponse
        /\ pc[op1] = "done" /\ pc[op2] = "done"

-----------------------------------------------------------------------------
(* C4 *)

\* C4: a token issuance that fails ends the operation with its error, which
\* is not the expired-token error: it is the last network call of the
\* operation, so no business call is sent in that attempt and no retry follows.
C4_TokenFailureIsFatal ==
    \A op \in Ops : \A i \in 1..Len(net[op]) :
        (net[op][i].request.kind = "token" /\ net[op][i].result.raised) =>
            /\ i = Len(net[op])
            /\ pc[op] = "done"
            /\ outcome[op] = Raised(net[op][i].result.error)
            /\ outcome[op].error.cls # "ExpiredTokenError"

\* a token issuance failed in the first attempt of one operation on a body
\* that mentions expiry, and in the retried attempt of the other
C4_Witness ==
    \E op1, op2 \in Ops :
        /\ Len(net[op1]) = 1
        /\ net[op1][1].response = Response(401, ExpiredBody)
        /\ pc[op1] = "done"
        /\ Len(net[op2]) = 3
        /\ net[op2][3].result.raised
        /\ net[op2][3].result.error.cls = "RuntimeError"
        /\ pc[op2] = "done"

-----------------------------------------------------------------------------
(* C5 *)

\* C5: every business call carries the token returned by the token issuance
\* that is the call just before it in the same operation and the same attempt.
C5_BearerIsFreshToken ==
    \A op \in Ops : \A i \in 1..Len(net[op]) :
        net[op][i].request.kind = "business" =>
            /\ i > 1
            /\ net[op][i - 1].request.kind = "token"
            /\ net[op][i - 1].attempt = net[op][i].attempt
            /\ ~net[op][i - 1].result.raised
            /\ net[op][i].request.bearer = net[op][i - 1].result.value

\* a retried business call after two issuances of different tokens, while the
\* other operation was issued a token different from the one it carries
C5_Witness ==
    \E op, other \in Ops :
        /\ op # other
        /\ Len(net[op]) = 4
        /\ net[op][1].result.value # net[op][3].result.value
        /\ net[op][4].request.bearer = net[op][3].result.value
        /\ Len(net[other]) >= 1
        /\ ~net[other][1].result.raised
        /\ net[other][1].result.value # net[op][4].request.bearer

-----------------------------------------------------------------------------
(* C6 *)

Absent(v) == v = PyNone \/ v = Str(<<>>)

\* C6: when the service key or the secret key is unset or empty, an
\* operation makes no network call at all and, once called, has ended with
\* the configuration error.
C6_NoNetworkWithoutKeys ==
    (Absent(env.SRCV_KEYVAL) \/ Absent(env.SCR_KEYVAL)) =>
        \A op \in Ops :
            /\ net[op] = <<>>
            /\ pc[op] \in {"idle", "done"}
            /\ pc[op] = "done" =>
                  /\ outcome[op].state = "raised"
                  /\ outcome[op].error.at = "config_missing"

\* an operation was called with the service key set and the secret key empty
C6_Witness ==
    /\ env.SRCV_KEYVAL = SERVICE_KEY
    /\ env.SCR_KEYVAL = Str(<<>>)
    /\ \E op \in Ops : pc[op] = "done" /\ outcome[op].state = "raised"

-----------------------------------------------------------------------------
(* _post_market_endpoint on its own: one call on every kind of answer *)

DefaultEnv ==
    [KAFB2B_API_URL |-> PyNone, SRCV_KEYVAL |-> SERVICE_KEY, SCR_KEYVAL |-> SECRET_KEY]

PostStatuses == {200, 204, 302, 400, 401, 500}

Marker == Str(EXPIRED_MARKER)

\* values of MESSAGE: strings with and without the marker, blank, padded,
\* with the two characters of the marker swapped or apart, and non-strings
MessageValues ==
    {Str(<<>>), Str(<<" ">>), Marker, Str(ExpiredText),
     Str(<<" ", "man", "ryo", " ">>), Str(<<"ryo", "man">>), Str(<<"man", " ", "ryo">>),
     Str(<<"man">>), Str(<<"b", "a", "d">>),
     PyNone, Num(0), Num(401), Bool(FALSE),
     Arr(<<Marker>>), Arr(<<Str(<<"man">>), Str(<<"ryo">>)>>),
     Obj(<<KV(<<"c", "o", "d", "e">>, Marker)>>)}

PostBodies ==
    {NotJson, PyNone, Num(0), Bool(TRUE), Marker, Str(<<>>), Arr(<<>>), Obj(<<>>),
     DataBody, Arr(<<ExpiredBody>>), Arr(<<Marker>>),
     Obj(<<KV(<<"d", "a", "t", "a">>, ExpiredBody)>>)}
    \cup {Obj(<<KV(MESSAGE, m)>>) : m \in MessageValues}
    \cup {Obj(<<KV(Lower(MESSAGE), m)>>) : m \in MessageValues}
    \cup {Obj(<<KV(<<"c", "o", "d", "e">>, Num(401)), KV(MESSAGE, m)>>) : m \in MessageValues}

PostInputs == {NoResponse} \cup {Response(st, b) : st \in PostStatuses, b \in PostBodies}

PostUrl == API_DEFAULT_BASE_URL \o EndpointPath("request_sales_price")

InitPost ==
    /\ env = DefaultEnv
    /\ InitOps
    /\ fn_in \in PostInputs
    /\ fn_out = Pending

Post ==
    /\ fn_out = Pending
    /\ fn_out' = Done(_post_market_endpoint(PostUrl, TokenA, Payload(CHOOSE q \in Queries : TRUE),
                                            Context("request_sales_price"), fn_in))
    /\ UNCHANGED <<env, pc, attempt, cfg, payload, token, net, outcome, args, stdout, fn_in>>

NextPost == Post

SpecPost == InitPost /\ [][NextPost]_vars

-----------------------------------------------------------------------------
(* C7 *)

\* the text of the MESSAGE of an object body
MessageText(body) ==
    PyStr(body.items[CHOOSE i \in 1..Len(body.items) : body.items[i].k = MESSAGE].v)

\* C7: on an HTTP failure, _post_market_endpoint raises the expired-token
\* error, carrying the text of MESSAGE without surrounding blanks, when the
\* body is an object whose MESSAGE contains the expiration marker; on every
\* other HTTP failure it raises the generic business-request error, which
\* names the operation and the status code.
C7_FailureClassification ==
    (fn_out # Pending /\ HttpFailure(fn_in)) =>
        IF SaysExpired(fn_in)
        THEN fn_out.result = Raise(Error("ExpiredTokenError", "expired",
                                  [message |-> Strip(MessageText(fn_in.body))]))
        ELSE /\ fn_out.result.raised
             /\ fn_out.result.error.cls = "RuntimeError"
             /\ fn_out.result.error.at = "business_failed"
             /\ fn_out.result.error.detail.status = fn_in.status
             /\ fn_out.result.error.detail.context = Context("request_sales_price")

\* a failure whose MESSAGE holds the marker between blanks was classified
C7_Witness ==
    /\ fn_out # Pending
    /\ fn_in = Response(500, Obj(<<KV(MESSAGE, Str(<<" ", "man", "ryo", " ">>))>>))
    /\ fn_out.result.raised
    /\ fn_out.result.error.cls = "ExpiredTokenError"

-----------------------------------------------------------------------------
(* C8 *)

HttpSuccess(resp) == resp # NoResponse /\ resp.status < 400

\* C8: on a success status, _post_market_endpoint raises the "not JSON" error
\* exactly when the body did not parse as JSON, and returns the parsed value
\* whenever the body parsed, whatever JSON value it is (null included).
C8_SuccessReturnsParsed ==
    (fn_out # Pending /\ HttpSuccess(fn_in)) =>
        /\ (fn_out.result.raised /\ fn_out.result.error.at = "business_not_json")
              <=> fn_in.body.t = "text"
        /\ fn_in.body.t # "text" => fn_out.result = Return(fn_in.body)

-----------------------------------------------------------------------------
(* C9 *)

\* The values found, at any depth of v, under a key equal to TKN_INFO without
\* regard to case
RECURSIVE KeyValues(_)
KeyValues(v) ==
    IF v.t = "obj"
    THEN UNION {(IF Lower(v.items[i].k) = Lower(TKN_INFO) THEN {v.items[i].v} ELSE {})
                \cup KeyValues(v.items[i].v) : i \in 1..Len(v.items)}
    ELSE IF v.t = "arr"
    THEN UNION {KeyValues(v.items[i]) : i \in 1..Len(v.items)}
    ELSE {}

\* the step in which op runs request_access_token
TokenStep(op) == pc[op] = "token" /\ <<pc[op], net[op]>>' # <<pc[op], net[op]>>

\* what C9 says of one call of request_access_token, e being its record
TokenCallRight(e) ==
    /\ e.request.kind = "token"
    /\ ~e.result.raised =>
          /\ HttpSuccess(e.response)
          /\ e.response.body.t # "text"
          /\ e.result.value \in KeyValues(e.response.body)
          /\ e.result.value.t = "str"
          /\ e.result.value.s # <<>>
    /\ HttpFailure(e.response) =>
          e.result.raised /\ e.result.error.at = "token_status"
    /\ (HttpSuccess(e.response) /\ e.response.body.t = "text") =>
          e.result.raised /\ e.result.error.at = "token_not_json"
    /\ (HttpSuccess(e.response) /\ e.response.body.t # "text"
            /\ KeyValues(e.response.body) = {}) =>
          e.result.raised /\ e.result.error.at = "token_missing"
    /\ e.result.raised => e.result.error.cls \in {"RuntimeError", "RequestException"}
    /\ e.response # NoResponse => (e.result.raised => e.result.error.cls = "RuntimeError")

\* C9: every run of request_access_token makes exactly one network call, a
\* token request; it returns a token only on a success status with a JSON
\* body that holds the token, and the token is a non-empty string; it raises
\* the token-request error on a failure status, on a body that is not JSON
\* and on a JSON body without a token field.
C9_TokenIssuance ==
    [][\A op \in Ops :
          TokenStep(op) =>
              /\ Len(net'[op]) = Len(net[op]) + 1
              /\ SubSeq(net'[op], 1, Len(net[op])) = net[op]
              /\ TokenCallRight(net'[op][Len(net'[op])])]_vars

\* one operation was refused a token by a failure status although the body
\* held one, the other was issued the token nested in its JSON body
C9_Witness ==
    \E op1, op2 \in Ops :
        /\ Len(net[op1]) = 1
        /\ net[op1][1].response = Response(500, Obj(<<KV(TKN_INFO, TokenA)>>))
        /\ net[op1][1].result.raised
        /\ Len(net[op2]) = 1
        /\ net[op2][1].result = Return(TokenB)
        /\ pc[op2] = "call"

-----------------------------------------------------------------------------
(* _find_token on its own: one call on every JSON value of a bounded depth *)

MaxDepth == 2

MixedKey == <<"T", "k", "n", "_", "I", "n", "f", "o">>
DataKey == <<"d", "a", "t", "a">>

FindKeys == {TKN_INFO, MixedKey, DataKey}
FindLeaves == {PyNone, Num(1), Str(<<>>), Str(<<" ">>), TokenA, Str(<<" ", "c", " ">>)}
FindSiblings == {TokenB, Str(<<" ">>)}

\* the JSON values nested at most d deep: a container holds one value of the
\* level below, alone or beside a sibling leaf; in an object the sibling
\* stands under TKN_INFO, before or after the pair that holds the value
RECURSIVE JsonValues(_)
JsonValues(d) ==
    IF d = 0 THEN FindLeaves
    ELSE LET sub == JsonValues(d - 1)
         IN  sub \cup {Arr(<<>>), Obj(<<>>)}
             \cup {Arr(<<v>>) : v \in sub}
             \cup {Arr(<<x, v>>) : x \in FindSiblings, v \in sub}
             \cup {Obj(<<KV(k, v)>>) : k \in FindKeys, v \in sub}
             \cup {Obj(<<KV(TKN_INFO, x), KV(k, v)>>) :
                     k \in FindKeys \ {TKN_INFO}, x \in FindSiblings, v \in sub}
             \cup {Obj(<<KV(k, v), KV(TKN_INFO, x)>>) :
                     k \in FindKeys \ {TKN_INFO}, x \in FindSiblings, v \in sub}

InitFind ==
    /\ env = DefaultEnv
    /\ InitOps
    /\ fn_in \in JsonValues(MaxDepth)
    /\ fn_out = Pending

Find ==
    /\ fn_out = Pending
    /\ fn_out' = Done(_find_token(fn_in))
    /\ UNCHANGED <<env, pc, attempt, cfg, payload, token, net, outcome, args, stdout, fn_in>>

NextFind == Find

SpecFind == InitFind /\ [][NextFind]_vars

-----------------------------------------------------------------------------
(* C10 *)

NonEmptyStrings(v) == {x \in KeyValues(v) : x.t = "str" /\ x.s # <<>>}
NonBlankStrings(v) == {x \in KeyValues(v) : x.t = "str" /\ Strip(x.s) # <<>>}

\* C10 as stated: _find_token returns one of the non-empty strings found
\* under a TKN_INFO key at any depth when there is one, and not-found when
\* there is none.
C10_FindsNonEmpty ==
    fn_out # Pending =>
        IF NonEmptyStrings(fn_in) # {}
        THEN fn_out.result \in NonEmptyStrings(fn_in)
        ELSE fn_out.result = PyNone

\* C10 (amended): for every JSON value _find_token returns a result, and: if
\* the value holds, at any depth, a key equal to TKN_INFO without regard to
\* case whose value is a string with a character that is not white space, it
\* returns such a value; if there is no such key, or every matching key has a
\* non-string, empty or blank (white space only) value, it returns not-found.
C10_FindsNonBlank ==
    fn_out # Pending =>
        IF NonBlankStrings(fn_in) # {}
        THEN fn_out.result \in NonBlankStrings(fn_in)
        ELSE fn_out.result = PyNone

\* the token was found one level down, under a key in mixed case, after a
\* TKN_INFO key of the top level whose value is blank
C10_Witness ==
    /\ fn_out # Pending
    /\ fn_in = Obj(<<KV(TKN_INFO, Str(<<" ">>)),
                     KV(DataKey, Obj(<<KV(MixedKey, TokenA)>>))>>)
    /\ fn_out.result = TokenA

-----------------------------------------------------------------------------
(* C14 *)

\* what an operation holds while it runs: its position, its locals and the
\* network calls it has made
Local(op) ==
    <<pc[op], attempt[op], cfg[op], payload[op], token[op], net[op], outcome[op]>>

\* the tokens that the operation's own token issuances returned
IssuedTo(op) ==
    {net[op][i].result.value :
        i \in {j \in 1..Len(net[op]) :
                  net[op][j].request.kind = "token" /\ ~net[op][j].result.raised}}

\* C14: with the operations interleaved in any order, each runs a token-retry
\* cycle of its own: a step (a call, or an answer received by one operation)
\* changes what one operation holds and nothing of any other; a business
\* call carries a token issued to the operation that makes it; every attempt
\* of an operation starts with a token issuance of its own; and whether an
\* operation retries, and how it ends, is decided by the answers to its own
\* calls.
C14_IndependentCycles ==
    [][/\ \A o1, o2 \in Ops :
             (Local(o1)' # Local(o1) /\ Local(o2)' # Local(o2)) => o1 = o2
       /\ \A op \in Ops :
             /\ \A i \in 1..Len(net'[op]) :
                   net'[op][i].request.kind = "business" =>
                       net'[op][i].request.bearer \in IssuedTo(op)'
             /\ \A a \in 1..attempt'[op] :
                   \/ pc'[op] = "token" /\ a = attempt'[op]
                   \/ \E i \in 1..Len(net'[op]) :
                         /\ net'[op][i].attempt = a
                         /\ net'[op][i].request.kind = "token"
                         /\ \A j \in 1..(i - 1) : net'[op][j].attempt < a
             /\ attempt'[op] = 2 <=> FirstBusinessExpired(op)'
             /\ (pc'[op] = "done" /\ net'[op] # <<>>) =>
                   outcome'[op] = AsOutcome(net'[op][Len(net'[op])].result)
      ]_vars

\* both operations are about to make a business call, one of them in its
\* retry, and hold different tokens
C14_Witness ==
    \E op, other \in Ops :
        /\ op # other
        /\ pc[op] = "call" /\ attempt[op] = 2
        /\ pc[other] = "call" /\ attempt[other] = 1
        /\ token[op] # token[other]

-----------------------------------------------------------------------------
(* C16 *)

\* the names of the four query parameters as they stand in the body
FieldKey ==
    [INQ_REQUST_YMD |-> <<"I", "N", "Q", "_", "R", "E", "Q", "U", "S", "T", "_", "Y", "M", "D">>,
     PGE_NO |-> <<"P", "G", "E", "_", "N", "O">>,
     WHMK_CD |-> <<"W", "H", "M", "K", "_", "C", "D">>,
     WHSL_CPR_CD |-> <<"W", "H", "S", "L", "_", "C", "P", "R", "_", "C", "D">>]

\* body is the JSON object of the four parameters of q, each under its name
FourFieldBody(body, q) ==
    /\ body.t = "obj"
    /\ Len(body.items) = 4
    /\ \A f \in DOMAIN FieldKey :
          \E i \in 1..Len(body.items) :
              body.items[i].k = FieldKey[f] /\ body.items[i].v = Str(q[f])

BusinessCalls(op) == {i \in 1..Len(net[op]) : net[op][i].request.kind = "business"}
TokenCalls(op) == {i \in 1..Len(net[op]) : net[op][i].request.kind = "token"}

\* C16: within one operation the first and the retried business call go to
\* the same URL (the resolved base plus the path of the operation) with the
\* same body, the four parameters the caller gave; the token issuances go to
\* one URL with the same credentials; and no step taken after the operation
\* has started (a token issuance, a failed call, the transition into the
\* retry) changes the arguments, the query body, the resolved URLs, the
\* credentials or the environment.
C16_RequestIsFixed ==
    [][\A op \in Ops :
          /\ \A i \in BusinessCalls(op)' :
                /\ net'[op][i].request.url = cfg'[op].base_url \o EndpointPath(op)
                /\ FourFieldBody(net'[op][i].request.json, args'[op])
                /\ \A j \in BusinessCalls(op)' :
                      /\ net'[op][j].request.url = net'[op][i].request.url
                      /\ net'[op][j].request.json = net'[op][i].request.json
          /\ \A i \in TokenCalls(op)' :
                /\ net'[op][i].request.url = cfg'[op].token_endpoint
                /\ \A j \in TokenCalls(op)' :
                      /\ net'[op][j].request.url = net'[op][i].request.url
                      /\ net'[op][j].request.json = net'[op][i].request.json
          /\ pc[op] # "idle" =>
                /\ args'[op] = args[op]
                /\ payload'[op] = payload[op]
                /\ cfg'[op] = cfg[op]
                /\ IsPrefix(net[op], net'[op])
          /\ env' = env
      ]_vars

\* the retried business call has been made, with another token than the
\* first one, for the query of the second page
C16_Witness ==
    \E op \in Ops :
        /\ Len(net[op]) = 4
        /\ net[op][4].request.kind = "business"
        /\ net[op][4].request.bearer # net[op][2].request.bearer
        /\ args[op].PGE_NO = <<"2">>
        /\ net[op][4].request.json = net[op][2].request.json

-----------------------------------------------------------------------------
(* C19 *)

\* the response has a success status and a JSON object body whose MESSAGE
\* holds the expiration marker
SuccessWithMarker(resp) ==
    /\ resp # NoResponse
    /\ resp.status < 400
    /\ resp.body.t = "obj"
    /\ \E i \in 1..Len(resp.body.items) :
          /\ resp.body.items[i].k = MESSAGE
          /\ Contains(PyStr(resp.body.items[i].v), EXPIRED_MARKER)

\* C19: an operation makes a call of a second attempt only if its first
\* business call was answered with a failure status and a JSON object whose
\* MESSAGE holds the expiration marker. A business call answered with a
\* success status never raises ExpiredTokenError and is the last call of the
\* operation; when its body is a JSON object with a MESSAGE that holds the
\* marker, that body is the result of the operation.
C19_RetryNeedsFailureStatus ==
    \A op \in Ops :
        /\ (attempt[op] = 2 \/ Len(net[op]) > 2) =>
              /\ net[op][2].request.kind = "business"
              /\ net[op][2].response # NoResponse
              /\ net[op][2].response.status >= 400
              /\ net[op][2].response.body.t = "obj"
              /\ SaysExpired(net[op][2].response)
        /\ \A i \in BusinessCalls(op) :
              (net[op][i].response # NoResponse /\ net[op][i].response.status < 400) =>
                  /\ net[op][i].result.raised => net[op][i].result.error.cls # "ExpiredTokenError"
                  /\ Len(net[op]) = i
                  /\ pc[op] = "done"
                  /\ SuccessWithMarker(net[op][i].response) =>
                        outcome[op] = Returned(net[op][i].response.body)

\* the first business call was answered 200 with the expired message, and the
\* operation returned that body after two calls
C19_Witness ==
    \E op \in Ops :
        /\ Len(net[op]) = 2
        /\ net[op][2].request.kind = "business"
        /\ net[op][2].response = Response(200, ExpiredBody)
        /\ pc[op] = "done"
        /\ outcome[op] = Returned(ExpiredBody)

-----------------------------------------------------------------------------
(* C17 *)

\* the operation is in its first attempt, in its retry, or over
FirstAttempt(op) == pc[op] \in {"token", "call"} /\ attempt[op] = 1
Retried(op) == pc[op] \in {"token", "call"} /\ attempt[op] = 2
Terminal(op) == pc[op] = "done" /\ outcome[op].state \in {"returned", "raised"}

\* C17: when every network call is answered or fails, an operation that has
\* started ends (with a result or with an error). On its way it is in
\* FirstAttempt or in Retried and nowhere else, it goes from FirstAttempt to
\* Retried or to the end and from Retried to the end only, and once over it
\* stays over with the same outcome.
C17_Terminates ==
    /\ \A op \in Ops : (FirstAttempt(op) \/ Retried(op)) ~> Terminal(op)
    /\ [][\A op \in Ops :
             /\ pc'[op] = "idle" \/ FirstAttempt(op)' \/ Retried(op)' \/ Terminal(op)'
             /\ FirstAttempt(op)' => (pc[op] = "idle" \/ FirstAttempt(op))
             /\ Retried(op)' => (FirstAttempt(op) \/ Retried(op))
             /\ Retried(op) => ~FirstAttempt(op)'
             /\ Terminal(op) => (Terminal(op)' /\ outcome'[op] = outcome[op])
             /\ attempt'[op] \in 0..2
        ]_vars

\* both operations are over, one after its first attempt with an error, the
\* other after its retry with a result
C17_Witness ==
    \E op, other \in Ops :
        /\ Terminal(op) /\ attempt[op] = 1 /\ outcome[op].state = "raised"
        /\ Terminal(other) /\ attempt[other] = 2 /\ outcome[other].state = "returned"

-----------------------------------------------------------------------------
(* C18 *)

Sales == "request_sales_price"
Trans == "request_trans_info"

\* an error without the label of the operation that raised it
Unlabelled(e) ==
    IF "context" \in DOMAIN e.detail
    THEN [e EXCEPT !.detail = [@ EXCEPT !.context = "label"]]
    ELSE e

UnlabelledResult(r) == IF r.raised THEN Raise(Unlabelled(r.error)) ELSE r
UnlabelledOutcome(o) == IF o.state = "raised" THEN Raised(Unlabelled(o.error)) ELSE o

\* the URL of a request without the path of the business endpoint of op
WithoutPath(op, request) ==
    IF request.kind = "business" /\ EndsWith(request.url, EndpointPath(op))
    THEN SubSeq(request.url, 1, Len(request.url) - Len(EndpointPath(op)))
    ELSE request.url

\* both operations were called with the same four parameters and have
\* received the same answers, in the same order
SameInputs ==
    /\ pc[Sales] # "idle" /\ pc[Trans] # "idle"
    /\ args[Sales] = args[Trans]
    /\ Len(net[Sales]) = Len(net[Trans])
    /\ \A i \in 1..Len(net[Sales]) : net[Sales][i].response = net[Trans][i].response

\* the two operations have made the same calls and stand at the same point
\* with the same outcome, up to the endpoint path and the error label
SameCallsAndOutcome ==
    SameInputs =>
        /\ \A i \in 1..Len(net[Sales]) :
              /\ net[Sales][i].request.kind = net[Trans][i].request.kind
              /\ net[Sales][i].request.json = net[Trans][i].request.json
              /\ net[Sales][i].request.bearer = net[Trans][i].request.bearer
              /\ WithoutPath(Sales, net[Sales][i].request) = WithoutPath(Trans, net[Trans][i].request)
              /\ net[Sales][i].request.kind = "business" =>
                    /\ net[Sales][i].request.url = cfg[Sales].base_url \o EndpointPath(Sales)
                    /\ net[Trans][i].request.url = cfg[Trans].base_url \o EndpointPath(Trans)
              /\ net[Sales][i].attempt = net[Trans][i].attempt
              /\ UnlabelledResult(net[Sales][i].result) = UnlabelledResult(net[Trans][i].result)
        /\ pc[Sales] = pc[Trans]
        /\ attempt[Sales] = attempt[Trans]
        /\ UnlabelledOutcome(outcome[Sales]) = UnlabelledOutcome(outcome[Trans])

\* C18 as stated: called with the same four parameters and given the same
\* answers, request_sales_price and request_trans_info make the same token
\* issuances and business calls with the same body and end in the same
\* outcome, and differ in nothing but the path of the business endpoint and
\* the label in error messages: in particular they write the same to the
\* standard output.
C18_DifferOnlyInPathAndLabel ==
    /\ SameCallsAndOutcome
    /\ SameInputs => stdout[Sales] = stdout[Trans]

-----------------------------------------------------------------------------
(* C15 *)

\* the pair holds a string under a key that is TKN_INFO without regard to case
HoldsTokenString(pair) ==
    /\ Lower(pair.k) = Lower(TKN_INFO)
    /\ pair.v.t = "str"

DirectNonEmpty(pair) == HoldsTokenString(pair) /\ pair.v.s # <<>>
DirectNonBlank(pair) == HoldsTokenString(pair) /\ Strip(pair.v.s) # <<>>

First(S) == CHOOSE i \in S : \A j \in S : i <= j

\* C15 as stated: when a map has a key matching TKN_INFO without regard to
\* case, with a non-empty string value, _find_token returns a value so held
\* by the map itself, whatever the order of the keys.
C15_DirectMatchWins ==
    (fn_out # Pending /\ fn_in.t = "obj") =>
        LET direct == {i \in 1..Len(fn_in.items) : DirectNonEmpty(fn_in.items[i])}
        IN  direct # {} => \E i \in direct : fn_out.result = fn_in.items[i].v

\* C15 (amended): _find_token takes the pairs of a map in key order, each one
\* first as a direct match (key equal to TKN_INFO without regard to case,
\* value a string that is not blank) and then by descending into its value.
\* The first pair that is a direct match or holds a nested match decides: a
\* direct match is returned as it is, so it wins over any match nested in a
\* later value of the same map; a match nested in an earlier value wins over
\* a later direct match.
C15_FirstPairInOrderWins ==
    (fn_out # Pending /\ fn_in.t = "obj") =>
        LET items == fn_in.items
            hits == {i \in 1..Len(items) :
                       DirectNonBlank(items[i]) \/ NonBlankStrings(items[i].v) # {}}
        IN  hits # {} =>
              IF DirectNonBlank(items[First(hits)])
              THEN fn_out.result = items[First(hits)].v
              ELSE fn_out.result \in NonBlankStrings(items[First(hits)].v)

\* a direct match was returned although the value that follows it in the map
\* holds a nested match
C15_Witness ==
    /\ fn_out # Pending
    /\ fn_in = Obj(<<KV(TKN_INFO, TokenB),
                     KV(DataKey, Obj(<<KV(TKN_INFO, TokenA)>>))>>)
    /\ fn_out.result = TokenB

-----------------------------------------------------------------------------
(* _split_base_and_token_endpoint on its own: the configured URL is resolved, *)
(* then the token endpoint it gave is resolved again                          *)

MaxUrlLen == 5

UrlChars == {"/", ".", "d", "o", "D"}

RECURSIVE UrlsOfLen(_)
UrlsOfLen(n) ==
    IF n = 0 THEN {<<>>}
    ELSE {Append(u, c) : u \in UrlsOfLen(n - 1), c \in UrlChars}

HostBase == SubSeq(BaseUrlSlash, 1, Len(BaseUrlSlash) - 1)

\* every string of at most MaxUrlLen characters, and the URLs of the
\* environment and of the documentation
Urls ==
    UNION {UrlsOfLen(n) : n \in 0..MaxUrlLen}
    \cup {API_DEFAULT_BASE_URL, BaseUrlSlash, TokenUrl, HostBase, TokenUrl \o <<"/">>}

InitUrl ==
    /\ env = DefaultEnv
    /\ InitOps
    /\ fn_in \in Urls
    /\ fn_out = Pending

Resolve ==
    /\ fn_out = Pending
    /\ fn_out' = Done(_split_base_and_token_endpoint(fn_in))
    /\ UNCHANGED <<env, pc, attempt, cfg, payload, token, net, outcome, args, stdout, fn_in>>

ResolveAgain ==
    /\ fn_out # Pending
    /\ "again" \notin DOMAIN fn_out
    /\ fn_out' = [done |-> TRUE, result |-> fn_out.result,
                  again |-> _split_base_and_token_endpoint(fn_out.result.token_endpoint)]
    /\ UNCHANGED <<env, pc, attempt, cfg, payload, token, net, outcome, args, stdout, fn_in>>

NextUrl == Resolve \/ ResolveAgain

SpecUrl == InitUrl /\ [][NextUrl]_vars

\* u without its trailing "/" characters
Normalized(u) ==
    SubSeq(u, 1, CHOOSE n \in 0..Len(u) :
                    /\ n = 0 \/ u[n] # "/"
                    /\ \A j \in (n + 1)..Len(u) : u[j] = "/")

HasSlash(u) == \E i \in 1..Len(u) : u[i] = "/"

\* the positions of u after its last "/"
AfterLastSlash(u) == {i \in 1..Len(u) : \A j \in i..Len(u) : u[j] # "/"}

\* the last path segment of u has a dot
LastSegmentHasDot(u) == \E i \in AfterLastSlash(u) : u[i] = "."

\* b is u up to, and without, its last "/"
IsParentOf(b, u) ==
    \E i \in 1..Len(u) :
        /\ u[i] = "/"
        /\ \A j \in (i + 1)..Len(u) : u[j] # "/"
        /\ b = SubSeq(u, 1, i - 1)

-----------------------------------------------------------------------------
(* C11 *)

\* C11 as stated: when the last segment of the normalized URL has a dot, the
\* token endpoint is the normalized URL and the resource base is everything
\* before its last path separator.
C11_DottedGivesParent ==
    (fn_out # Pending /\ LastSegmentHasDot(Normalized(fn_in))) =>
        /\ fn_out.result.token_endpoint = Normalized(fn_in)
        /\ IsParentOf(fn_out.result.resource_base, Normalized(fn_in))

\* C11 (amended): when the last segment of the normalized URL has a dot, the
\* token endpoint is the normalized URL; the resource base is everything
\* before its last path separator when it has one, and the normalized URL
\* itself when it has none.
C11_DottedGivesParentOrSelf ==
    (fn_out # Pending /\ LastSegmentHasDot(Normalized(fn_in))) =>
        /\ fn_out.result.token_endpoint = Normalized(fn_in)
        /\ IF HasSlash(Normalized(fn_in))
           THEN IsParentOf(fn_out.result.resource_base, Normalized(fn_in))
           ELSE fn_out.result.resource_base = Normalized(fn_in)

\* the token URL of the documentation, with a trailing slash, was resolved
C11_Witness ==
    /\ fn_out # Pending
    /\ fn_in = TokenUrl \o <<"/">>
    /\ fn_out.result.token_endpoint = TokenUrl
    /\ fn_out.result.resource_base = HostBase

-----------------------------------------------------------------------------
(* C12 *)

\* C12: when the last segment of the normalized URL has no dot, the resource
\* base is the normalized URL and the token endpoint is the resource base
\* followed by "/access_token.do".
C12_PlainGivesAppended ==
    (fn_out # Pending /\ ~LastSegmentHasDot(Normalized(fn_in))) =>
        /\ fn_out.result.resource_base = Normalized(fn_in)
        /\ fn_out.result.token_endpoint =
              fn_out.result.resource_base
              \o <<"/", "a", "c", "c", "e", "s", "s", "_", "t", "o", "k", "e", "n", ".", "d", "o">>

\* the base URL of the documentation, with a trailing slash, was resolved
C12_Witness ==
    /\ fn_out # Pending
    /\ fn_in = BaseUrlSlash
    /\ fn_out.result.resource_base = HostBase
    /\ fn_out.result.token_endpoint = TokenUrl

-----------------------------------------------------------------------------
(* C13 *)

\* C13 as stated: the last segment of the token endpoint has a dot and the
\* last segment of the resource base never has one.
C13_BaseNeverDotted ==
    fn_out # Pending =>
        /\ LastSegmentHasDot(fn_out.result.token_endpoint)
        /\ ~LastSegmentHasDot(fn_out.result.resource_base)

\* C13 (amended): the last segment of the token endpoint always has a dot;
\* the last segment of the resource base has a dot exactly when the last
\* segment of the normalized URL has one and either the URL has no path
\* separator or the segment before the last has a dot too.
C13_BaseDottedOnlyByParent ==
    fn_out # Pending =>
        /\ LastSegmentHasDot(fn_out.result.token_endpoint)
        /\ LastSegmentHasDot(fn_out.result.resource_base) <=>
              /\ LastSegmentHasDot(Normalized(fn_in))
              /\ \/ ~HasSlash(Normalized(fn_in))
                 \/ \E b \in {SubSeq(fn_in, 1, n) : n \in 0..Len(fn_in)} :
                       IsParentOf(b, Normalized(fn_in)) /\ LastSegmentHasDot(b)

\* a URL whose last two segments both have a dot was resolved
C13_Witness ==
    /\ fn_out # Pending
    /\ fn_in = <<"d", ".", "/", ".", "o">>
    /\ fn_out.result.resource_base = <<"d", ".">>

-----------------------------------------------------------------------------
(* C20 *)

\* C20: resolving the token endpoint that a configured URL resolved to gives
\* the same resource base and the same token endpoint again.
C20_ResolveIsStable ==
    (fn_out # Pending /\ "again" \in DOMAIN fn_out) => fn_out.again = fn_out.result

\* the token endpoint derived from a bare base was resolved again
C20_Witness ==
    /\ fn_out # Pending
    /\ "again" \in DOMAIN fn_out
    /\ fn_in = BaseUrlSlash
    /\ fn_out.again.resource_base = HostBase
    /\ fn_out.again.token_endpoint = TokenUrl

====
